---- MODULE Spec2Model ----
(***************************************************************************)
(* Layer stack, snapshot history and asynchronous image decodes of the     *)
(* paint application in src/script.js.                                     *)
(*                                                                         *)
(* A canvas is a row-major grid of RGBA pixels.  The canvas of the program *)
(* is 540 x 540; the model keeps the grid's shape but scales its size down *)
(* (Width, Height), and scales the history capacity down (maxHistory) so   *)
(* that eviction happens within a few recorded edits.  A stroke is drawn   *)
(* one pixel wide: the brush width and cap shape of the program only       *)
(* select which pixels a segment covers.                                   *)
(***************************************************************************)
EXTENDS Integers, Sequences, FiniteSets, TLC

\* ---- sizes of the model ---------------------------------------------------
MaxOps == 4          \* user operations that change the state, per session
Width == 1           \* canvas width in pixels  (CONFIG.width is 540)
Height == 1          \* canvas height in pixels (CONFIG.height is 540)
maxHistory == 3      \* capacity of the log     (state.maxHistory is 20)

NPix == Width * Height
PixIdx == 1..NPix

\* ---- pixels and surfaces ------------------------------------------------
\* A pixel is <<r, g, b, a>>; a colour is the number 0xRRGGBB that the
\* "#rrggbb" string of state.color denotes.
Transparent == <<0, 0, 0, 0>>
WhitePx == <<255, 255, 255, 255>>
BlackPx == <<0, 0, 0, 255>>

bgColor == 16777215          \* CONFIG.bgColor '#ffffff'
black == 0                   \* '#000000', the initial state.color

\* rgbToHex: "#" + ((1 << 24) + (r << 16) + (g << 8) + b).toString(16).slice(1)
\* The leading 1 of the 25-bit number is the digit slice(1) drops.
rgbToHex(r, g, b) == ((16777216 + r * 65536 + g * 256 + b) % 16777216)

\* The opaque pixel a fillStyle / strokeStyle of colour c paints.
ColorPx(c) == <<c \div 65536, (c \div 256) % 256, c % 256, 255>>

BlankSurface == [i \in PixIdx |-> Transparent]
FillRect(c) == [i \in PixIdx |-> ColorPx(c)]

\* source-over of one pixel on another, for the alpha values 0 and 255 the
\* model's surfaces hold.
Over(src, dst) == IF src[4] = 0 THEN dst ELSE src

\* ctx.drawImage(img, 0, 0) with globalCompositeOperation 'source-over'.
DrawImage(img, surf) == [i \in PixIdx |-> Over(img[i], surf[i])]

\* canvas.toDataURL() and the decode of an <img> whose src is that URL.
\* A data URL is a record holding the encoded pixels; BadImage is an image
\* source that never decodes (its onload never fires).
toDataURL(surf) == [png |-> surf]
BadImage == [png |-> << >>]
Decodes(url) == url /= BadImage
ImageOf(url) == url.png

\* ---- state --------------------------------------------------------------
VARIABLES
    layers,          \* state.layers: sequence of [id, obj, name, visible, surf]
    activeLayerId,   \* state.activeLayerId
    nextLayerId,     \* state.nextLayerId
    history,         \* state.history: sequence of [layerId, dataURL]
    historyStep,     \* state.historyStep (0-based index into history, or -1)
    isDrawing,       \* state.isDrawing
    currentTool,     \* state.currentTool
    color,           \* state.color
    lastX, lastY,    \* state.lastX, state.lastY
    pending,         \* image decodes issued whose onload has not run yet
    loadedCount,     \* loadedCount of each restoreProject call, by call number
    nextObj,         \* number of layer objects created so far
    layersList,      \* ids of the layer items rendered in #layers-list
    alertText,       \* text of the alert() the last step raised, "" for none
    ops,             \* user operations so far that changed the state
    e2e,             \* observer: progress of "add a layer, paint one stroke,
                     \* record, undo, decode" on the layer last added
    called,          \* SpecLayers: "deleteLayer" when the last step was a
                     \* trash button's click, "" otherwise
    savedFile,       \* SpecSave: the project file saveProject downloaded last
    savedFrom,       \* SpecSave: the stack and nextLayerId it was saved from
    rt,              \* SpecSave: observer of the load of savedFile
    imageData,       \* SpecGen, SpecCompile: imageData of processAllLayers
    code,            \* SpecGen, SpecCompile: lines of #code-output's text
    genTimer         \* SpecGen: generateCode's timeout is pending

prog == <<layers, activeLayerId, nextLayerId, history, historyStep, isDrawing,
          currentTool, color, lastX, lastY, pending, loadedCount, nextObj,
          layersList>>

\* Variables that only the specifications of single components use.
saveAux == <<savedFile, savedFrom, rt>>
genAux == <<imageData, code, genTimer>>
aux == <<called, saveAux, genAux>>

vars == <<prog, alertText, ops, e2e, aux>>

drawVars == <<isDrawing, currentTool, color, lastX, lastY>>

\* alert("Failed to load project file.") of loadProject's catch block, and
\* the absence of any alert.
LoadFailed == "Failed to load project file."
NoAlert == ""

\* ---- helpers over the layer sequence -------------------------------------
LayerIds(ls) == {ls[i].id : i \in 1..Len(ls)}

\* Array.prototype.findIndex(l => l.id === id): first match, 0 when none
\* (the program's -1).
findIndex(ls, id) ==
    IF \E i \in 1..Len(ls) : ls[i].id = id
    THEN CHOOSE i \in 1..Len(ls) :
            ls[i].id = id /\ \A j \in 1..(i - 1) : ls[j].id /= id
    ELSE 0

\* Position of the layer object obj in the stack, 0 when it was removed.
ObjIndex(ls, obj) ==
    IF \E i \in 1..Len(ls) : ls[i].obj = obj
    THEN CHOOSE i \in 1..Len(ls) : ls[i].obj = obj
    ELSE 0

RemoveAt(s, i) == SubSeq(s, 1, i - 1) \o SubSeq(s, i + 1, Len(s))

SetSurf(ls, i, surf) == [ls EXCEPT ![i].surf = surf]

\* getActiveCtx: the index of the layer state.activeLayerId finds, 0 for null.
getActiveCtx == findIndex(layers, activeLayerId)

\* ---- history --------------------------------------------------------------
\* Variant of saveHistoryState without the shift of the oldest entry.
saveHistoryStateNoShift(ls, h, step, layerId) ==
    LET idx == findIndex(ls, layerId)
        trimmed == IF step < Len(h) - 1 THEN SubSeq(h, 1, step + 1) ELSE h
        pushed == Append(trimmed,
                         [layerId |-> layerId, dataURL |-> toDataURL(ls[idx].surf)])
    IN  IF idx = 0
        THEN [history |-> h, historyStep |-> step]
        ELSE [history |-> pushed, historyStep |-> step + 1]

\* Variant of saveHistoryState that shifts the oldest entry out and leaves
\* the cursor where the increment put it.
saveHistoryStateNoDecrement(ls, h, step, layerId) ==
    LET idx == findIndex(ls, layerId)
        trimmed == IF step < Len(h) - 1 THEN SubSeq(h, 1, step + 1) ELSE h
        pushed == Append(trimmed,
                         [layerId |-> layerId, dataURL |-> toDataURL(ls[idx].surf)])
    IN  IF idx = 0
        THEN [history |-> h, historyStep |-> step]
        ELSE IF Len(pushed) > maxHistory
             THEN [history |-> Tail(pushed), historyStep |-> step + 1]
             ELSE [history |-> pushed, historyStep |-> step + 1]

\* Variant of saveHistoryState that keeps the entries above the cursor.
saveHistoryStateNoTrim(ls, h, step, layerId) ==
    LET idx == findIndex(ls, layerId)
        pushed == Append(h, [layerId |-> layerId, dataURL |-> toDataURL(ls[idx].surf)])
    IN  IF idx = 0
        THEN [history |-> h, historyStep |-> step]
        ELSE IF Len(pushed) > maxHistory
             THEN [history |-> Tail(pushed), historyStep |-> (step + 1) - 1]
             ELSE [history |-> pushed, historyStep |-> step + 1]

\* saveHistoryState(layerId) applied to stack ls, log h and cursor step;
\* the result is the new log and cursor.
saveHistoryState(ls, h, step, layerId) ==
    LET idx == findIndex(ls, layerId)
        trimmed == IF step < Len(h) - 1 THEN SubSeq(h, 1, step + 1) ELSE h
        pushed == Append(trimmed,
                         [layerId |-> layerId, dataURL |-> toDataURL(ls[idx].surf)])
    IN  IF idx = 0
        THEN [history |-> h, historyStep |-> step]
        ELSE IF Len(pushed) > maxHistory
             THEN [history |-> Tail(pushed), historyStep |-> (step + 1) - 1]
             ELSE [history |-> pushed, historyStep |-> step + 1]

\* processAllLayers has not run yet.
NoImage == [width |-> 0, height |-> 0, data |-> << >>]

\* No project file downloaded yet.
NoFile == [parses |-> FALSE]

\* ---- initial state: after init() has run addLayer("Background") ----------
Background == [id |-> 1, obj |-> 1, name |-> <<"Background", 0>>, visible |-> TRUE,
               surf |-> FillRect(bgColor)]

Init ==
    /\ layers = <<Background>>
    /\ activeLayerId = 1
    /\ nextLayerId = 2
    /\ history = <<[layerId |-> 1, dataURL |-> toDataURL(FillRect(bgColor))]>>
    /\ historyStep = 0
    /\ isDrawing = FALSE
    /\ currentTool = "pen"
    /\ color = black
    /\ lastX = 0
    /\ lastY = 0
    /\ pending = {}
    /\ loadedCount = << >>
    /\ nextObj = 1
    /\ layersList = {1}
    /\ alertText = NoAlert
    /\ ops = 0
    /\ e2e = [stage |-> "created", obj |-> 1, first |-> TRUE]
    /\ called = ""
    /\ savedFile = NoFile
    /\ savedFrom = NoFile
    /\ rt = [job |-> 0, clean |-> FALSE, from |-> NoFile]
    /\ imageData = NoImage
    /\ code = << >>
    /\ genTimer = FALSE

\* ---- layer management ------------------------------------------------------
\* renderLayerList: one item per layer, its click handlers closed over layer.id.
renderLayerList(ls) == LayerIds(ls)

\* Variant of addLayer without its closing saveHistoryState(id).
addLayerNoRecord ==
    /\ LET id == nextLayerId
           surf == IF Len(layers) = 0 THEN FillRect(bgColor) ELSE BlankSurface
           layerObj == [id |-> id, obj |-> nextObj + 1, name |-> <<"Layer", id>>,
                        visible |-> TRUE, surf |-> surf]
           ls == Append(layers, layerObj)
       IN  /\ nextLayerId' = nextLayerId + 1
           /\ nextObj' = nextObj + 1
           /\ layers' = ls
           /\ activeLayerId' = id
           /\ layersList' = renderLayerList(ls)
    /\ UNCHANGED <<history, historyStep, drawVars, pending, loadedCount>>

\* btnAddLayer click: addLayer(`Layer ${state.nextLayerId}`)
addLayer ==
    /\ LET id == nextLayerId
           surf == IF Len(layers) = 0 THEN FillRect(bgColor) ELSE BlankSurface
           layerObj == [id |-> id, obj |-> nextObj + 1, name |-> <<"Layer", id>>,
                        visible |-> TRUE, surf |-> surf]
           ls == Append(layers, layerObj)
           saved == saveHistoryState(ls, history, historyStep, id)
       IN  /\ nextLayerId' = nextLayerId + 1
           /\ nextObj' = nextObj + 1
           /\ layers' = ls
           /\ activeLayerId' = id
           /\ layersList' = renderLayerList(ls)
           /\ history' = saved.history
           /\ historyStep' = saved.historyStep
    /\ UNCHANGED <<drawVars, pending, loadedCount>>

\* click on a layer item: setActiveLayer(layer.id)
setActiveLayer(id) ==
    /\ id \in layersList
    /\ activeLayerId' = id
    /\ layersList' = renderLayerList(layers)
    /\ UNCHANGED <<layers, nextLayerId, history, historyStep, drawVars, pending,
                   loadedCount, nextObj>>

\* click on a layer item's eye button: toggleLayerVisibility(layer.id)
toggleLayerVisibility(id) ==
    /\ id \in layersList
    /\ LET i == findIndex(layers, id)
       IN  IF i /= 0
           THEN /\ layers' = [layers EXCEPT ![i].visible = ~layers[i].visible]
                /\ layersList' = renderLayerList(layers')
           ELSE UNCHANGED <<layers, layersList>>
    /\ UNCHANGED <<activeLayerId, nextLayerId, history, historyStep, drawVars,
                   pending, loadedCount, nextObj>>

\* Variant of the neighbour choice that takes the layer above the removed one.
NeighborAbove(ls, idx) == ls[IF idx <= Len(ls) THEN idx ELSE Len(ls)].id

\* The layer deleteLayer makes active after removing the active layer at
\* 1-based position idx: state.layers[Math.max(0, idx - 1)] of the new stack.
NeighborAfterDelete(ls, idx) == ls[IF idx - 1 >= 1 THEN idx - 1 ELSE 1].id

\* click on a layer item's trash button: deleteLayer(layer.id)
deleteLayer(id) ==
    /\ id \in layersList
    /\ LET idx == findIndex(layers, id)
           ls == RemoveAt(layers, idx)
       IN  IF Len(layers) <= 1 \/ idx = 0
           THEN UNCHANGED <<layers, activeLayerId, layersList>>
           ELSE /\ layers' = ls
                /\ activeLayerId' = IF activeLayerId = id
                                    THEN NeighborAfterDelete(ls, idx)
                                    ELSE activeLayerId
                /\ layersList' = renderLayerList(ls)
    /\ UNCHANGED <<nextLayerId, history, historyStep, drawVars, pending,
                   loadedCount, nextObj>>

\* ---- tools and properties ---------------------------------------------------
Tools == {"pen", "eraser", "pipette"}
PickerColors == {black}

\* tool buttons and the p / e / i keys: switchToTool(toolName)
switchToTool(t) ==
    /\ currentTool' = t
    /\ UNCHANGED <<layers, activeLayerId, nextLayerId, history, historyStep,
                   isDrawing, color, lastX, lastY, pending, loadedCount, nextObj,
                   layersList>>

\* colorPicker 'input' listener
colorInput(c) ==
    /\ color' = c
    /\ currentTool' = IF currentTool = "eraser" THEN "pen" ELSE currentTool
    /\ UNCHANGED <<layers, activeLayerId, nextLayerId, history, historyStep,
                   isDrawing, lastX, lastY, pending, loadedCount, nextObj,
                   layersList>>

\* ---- drawing ------------------------------------------------------------------
PixelAt(x, y) == y * Width + x + 1

Min(a, b) == IF a <= b THEN a ELSE b
Max(a, b) == IF a >= b THEN a ELSE b

\* Pixels the stroked path moveTo(x0, y0) lineTo(x1, y1) covers.
SegmentPixels(x0, y0, x1, y1) ==
    {PixelAt(x, y) : x \in Min(x0, x1)..Max(x0, x1), y \in Min(y0, y1)..Max(y0, y1)}

\* ctx.stroke() of that path on surf: 'destination-out' for the eraser,
\* 'source-over' with strokeStyle state.color for every other tool.
Stroke(surf, px, tool, c) ==
    [i \in PixIdx |->
        IF i \in px
        THEN IF tool = "eraser" THEN Transparent ELSE ColorPx(c)
        ELSE surf[i]]

\* pickColorGlobal(x, y): the visible layers drawn in order on a fresh
\* (transparent) 1x1 canvas, and the colour of its pixel.
RECURSIVE PickPixel(_, _, _)
PickPixel(ls, n, i) ==
    IF n = 0 THEN Transparent
    ELSE LET below == PickPixel(ls, n - 1, i)
         IN  IF ls[n].visible THEN Over(ls[n].surf[i], below) ELSE below

pickColorGlobal(x, y) ==
    LET data == PickPixel(layers, Len(layers), PixelAt(x, y))
    IN  rgbToHex(data[1], data[2], data[3])

PointerEvents ==
    [isPrimary : BOOLEAN, button : {0, 2}, x : 0..(Width - 1), y : 0..(Height - 1)]

\* The body of draw(e) once state.isDrawing holds.  A path of zero length is
\* stroked as a dot by some canvas implementations and not at all by others
\* (dot).
drawBody(e, dot) ==
    LET i == getActiveCtx
        px == IF lastX = e.x /\ lastY = e.y /\ ~dot
              THEN {}
              ELSE SegmentPixels(lastX, lastY, e.x, e.y)
    IN  IF i = 0
        THEN UNCHANGED <<layers, lastX, lastY>>
        ELSE /\ layers' = SetSurf(layers, i, Stroke(layers[i].surf, px, currentTool, color))
             /\ lastX' = e.x
             /\ lastY' = e.y

\* canvasWrapper 'pointerdown' listener
startDrawing(e) ==
    /\ LET i == getActiveCtx
       IN  IF e.isPrimary = FALSE \/ e.button /= 0
           THEN UNCHANGED <<layers, drawVars>>
           ELSE IF i = 0
           THEN UNCHANGED <<layers, drawVars>>
           ELSE IF ~layers[i].visible
           THEN UNCHANGED <<layers, drawVars>>
           ELSE IF currentTool = "pipette"
           THEN /\ color' = pickColorGlobal(e.x, e.y)
                /\ currentTool' = "pen"
                /\ isDrawing' = FALSE
                /\ lastX' = e.x
                /\ lastY' = e.y
                /\ UNCHANGED layers
           ELSE /\ isDrawing' = TRUE
                /\ \E dot \in BOOLEAN :
                      layers' = SetSurf(layers, i,
                                   Stroke(layers[i].surf,
                                          IF dot THEN SegmentPixels(e.x, e.y, e.x, e.y) ELSE {},
                                          currentTool, color))
                /\ lastX' = e.x
                /\ lastY' = e.y
                /\ UNCHANGED <<currentTool, color>>
    /\ UNCHANGED <<activeLayerId, nextLayerId, history, historyStep, pending,
                   loadedCount, nextObj, layersList>>

\* window 'pointermove' listener
draw(e) ==
    /\ IF ~isDrawing
       THEN UNCHANGED <<layers, lastX, lastY>>
       ELSE \E dot \in BOOLEAN : drawBody(e, dot)
    /\ UNCHANGED <<activeLayerId, nextLayerId, history, historyStep, isDrawing,
                   currentTool, color, pending, loadedCount, nextObj, layersList>>

\* window 'pointerup' listener
stopDrawing ==
    /\ IF isDrawing
       THEN LET saved == saveHistoryState(layers, history, historyStep, activeLayerId)
            IN  /\ isDrawing' = FALSE
                /\ history' = saved.history
                /\ historyStep' = saved.historyStep
       ELSE UNCHANGED <<isDrawing, history, historyStep>>
    /\ UNCHANGED <<layers, activeLayerId, nextLayerId, currentTool, color, lastX,
                   lastY, pending, loadedCount, nextObj, layersList>>

\* btnClear click
clearCurrentLayer ==
    /\ LET i == getActiveCtx
           ls == SetSurf(layers, i, BlankSurface)
           saved == saveHistoryState(ls, history, historyStep, activeLayerId)
       IN  IF i = 0
           THEN UNCHANGED <<layers, history, historyStep>>
           ELSE /\ layers' = ls
                /\ history' = saved.history
                /\ historyStep' = saved.historyStep
    /\ UNCHANGED <<activeLayerId, nextLayerId, drawVars, pending, loadedCount,
                   nextObj, layersList>>

\* ---- undo ---------------------------------------------------------------------
\* prevData = null: no data URL at all.
NoData == [png |-> << << >> >>]

\* Variant of the loop of undo() that takes the oldest entry of the layer at
\* or below index i instead of the nearest.
prevDataOldest(h, i, layerId) ==
    LET S == {k \in 0..i : h[k + 1].layerId = layerId}
    IN  IF S = {} THEN NoData
        ELSE h[(CHOOSE k \in S : \A j \in S : k <= j) + 1].dataURL

\* The loop of undo(): the dataURL of the entry nearest below or at 0-based
\* index i whose layerId is layerId, NoData (null) when there is none.
RECURSIVE prevData(_, _, _)
prevData(h, i, layerId) ==
    IF i < 0 THEN NoData
    ELSE IF h[i + 1].layerId = layerId THEN h[i + 1].dataURL
    ELSE prevData(h, i - 1, layerId)

\* An image whose src was set and whose onload has not run: the layer object
\* and the values its handler closes over.
UndoDecode(obj, layerId, data) ==
    [kind |-> "undo", obj |-> obj, layerId |-> layerId, data |-> data,
     job |-> 0, total |-> 0]
LoadDecode(obj, layerId, data, job, total) ==
    [kind |-> "load", obj |-> obj, layerId |-> layerId, data |-> data,
     job |-> job, total |-> total]

\* Variant of that branch which clears the layer.
undoNoPrevClears(ls, i) == SetSurf(ls, i, BlankSurface)

\* The branch of undo() taken when prevData is null: empty, the layer at
\* index i keeps its pixels.
undoNoPrev(ls, i) == ls

\* Variant of undo() whose guard lets the cursor leave index 0.
undoFromZero ==
    IF historyStep >= 0
    THEN LET actionToUndo == history[historyStep + 1]
             step == historyStep - 1
             prev == prevData(history, step, actionToUndo.layerId)
             i == findIndex(layers, actionToUndo.layerId)
         IN  /\ historyStep' = step
             /\ pending' = IF i /= 0 /\ prev /= NoData
                           THEN pending \cup
                                {UndoDecode(layers[i].obj, actionToUndo.layerId, prev)}
                           ELSE pending
             /\ layers' = IF i /= 0 /\ prev = NoData
                          THEN undoNoPrev(layers, i)
                          ELSE layers
             /\ UNCHANGED <<activeLayerId, nextLayerId, history, drawVars,
                            loadedCount, nextObj, layersList>>
    ELSE UNCHANGED prog

\* btnUndo click and ctrl+z
undo ==
    IF historyStep > 0
    THEN LET actionToUndo == history[historyStep + 1]
             step == historyStep - 1
             prev == prevData(history, step, actionToUndo.layerId)
             i == findIndex(layers, actionToUndo.layerId)
         IN  /\ historyStep' = step
             /\ pending' = IF i /= 0 /\ prev /= NoData
                           THEN pending \cup
                                {UndoDecode(layers[i].obj, actionToUndo.layerId, prev)}
                           ELSE pending
             /\ layers' = IF i /= 0 /\ prev = NoData
                          THEN undoNoPrev(layers, i)
                          ELSE layers
             /\ UNCHANGED <<activeLayerId, nextLayerId, history, drawVars,
                            loadedCount, nextObj, layersList>>
    ELSE UNCHANGED prog

\* Variant of undo()'s img.onload that looks the layer up by id when the
\* image has loaded instead of using the layer object undo() found.
undoOnloadById(p) ==
    /\ p \in pending
    /\ p.kind = "undo"
    /\ pending' = pending \ {p}
    /\ LET i == findIndex(layers, p.layerId)
       IN  layers' = IF i = 0 THEN layers
                     ELSE SetSurf(layers, i, DrawImage(ImageOf(p.data), BlankSurface))
    /\ UNCHANGED <<activeLayerId, nextLayerId, history, historyStep, drawVars,
                   loadedCount, nextObj, layersList>>

\* img.onload of undo(): clearRect, then drawImage of the decoded snapshot on
\* the layer object the handler closed over (in the stack or removed from it).
undoOnload(p) ==
    /\ p \in pending
    /\ p.kind = "undo"
    /\ pending' = pending \ {p}
    /\ LET i == ObjIndex(layers, p.obj)
       IN  layers' = IF i = 0 THEN layers
                     ELSE SetSurf(layers, i, DrawImage(ImageOf(p.data), BlankSurface))
    /\ UNCHANGED <<activeLayerId, nextLayerId, history, historyStep, drawVars,
                   loadedCount, nextObj, layersList>>

\* ---- project load ----------------------------------------------------------------
\* The text of a project file.  parses: JSON.parse succeeds; hasLayers: the
\* parsed object has a layers array; nextLayerId 0 stands for a missing field.
ProjLayer(id, visible, data) ==
    [id |-> id, name |-> <<"Layer", id>>, visible |-> visible, data |-> data]

ProjectFile(parses, hasLayers, next, ls) ==
    [parses |-> parses, hasLayers |-> hasLayers, nextLayerId |-> next, layers |-> ls]

InkImage == toDataURL(FillRect(black))
WhiteImage == toDataURL(FillRect(bgColor))

ProjectFiles ==
    { ProjectFile(FALSE, FALSE, 0, << >>),
      ProjectFile(TRUE, FALSE, 0, << >>),
      ProjectFile(TRUE, TRUE, 0, << >>),
      ProjectFile(TRUE, TRUE, 0, <<ProjLayer(2, TRUE, InkImage)>>),
      ProjectFile(TRUE, TRUE, 0, <<ProjLayer(1, TRUE, BadImage)>>),
      ProjectFile(TRUE, TRUE, 3, <<ProjLayer(1, TRUE, WhiteImage),
                                   ProjLayer(2, FALSE, InkImage)>>) }

\* The layer objects restoreProject pushes for project.layers, each on a new
\* blank canvas; the k-th gets object number obj0 + k.
RestoredLayers(pl, obj0) ==
    [k \in 1..Len(pl) |->
        [id |-> pl[k].id, obj |-> obj0 + k, name |-> pl[k].name,
         visible |-> pl[k].visible, surf |-> BlankSurface]]

\* The images restoreProject starts decoding: one per layer whose data decodes.
RestoreDecodes(pl, obj0, job) ==
    { LoadDecode(obj0 + k, pl[k].id, pl[k].data, job, Len(pl)) :
        k \in {j \in 1..Len(pl) : Decodes(pl[j].data)} }

\* restoreProject(project), up to the end of its forEach or to the TypeError
\* that project.layers.forEach throws when there is no layers array.
restoreProject(project) ==
    LET pl == IF project.hasLayers THEN project.layers ELSE << >>
    IN  /\ layers' = RestoredLayers(pl, nextObj)
        /\ nextObj' = nextObj + Len(pl)
        /\ layersList' = {}
        /\ nextLayerId' = IF project.nextLayerId /= 0 THEN project.nextLayerId ELSE 1
        /\ loadedCount' = Append(loadedCount, 0)
        /\ pending' = pending \cup RestoreDecodes(pl, nextObj, Len(loadedCount) + 1)
        /\ UNCHANGED <<activeLayerId, history, historyStep, drawVars>>

\* Variant of saveProject that writes every layer as visible.
saveProjectAllVisible ==
    [parses |-> TRUE, hasLayers |-> TRUE, nextLayerId |-> nextLayerId,
     layers |-> [k \in 1..Len(layers) |->
                    [id |-> layers[k].id, name |-> layers[k].name,
                     visible |-> TRUE, data |-> toDataURL(layers[k].surf)]]]

\* saveProject: the text JSON.stringify(projectData) of the downloaded file,
\* as the record JSON.parse makes of it.
saveProject ==
    [parses |-> TRUE, hasLayers |-> TRUE, nextLayerId |-> nextLayerId,
     layers |-> [k \in 1..Len(layers) |->
                    [id |-> layers[k].id, name |-> layers[k].name,
                     visible |-> layers[k].visible,
                     data |-> toDataURL(layers[k].surf)]]]

\* fileInput 'change' listener and the FileReader's onload: JSON.parse, then
\* restoreProject inside try / catch.
loadProject(file) ==
    /\ IF file.parses
       THEN restoreProject(file)
       ELSE UNCHANGED prog

\* What the catch block of reader.onload alerts: JSON.parse throws on a text
\* that does not parse, project.layers.forEach throws without a layers array.
catchAlert(file) ==
    IF file.parses /\ file.hasLayers THEN NoAlert ELSE LoadFailed

\* img.onload of restoreProject: drawImage on the layer's canvas, then the
\* count of the restoreProject call the image belongs to.
loadOnload(p) ==
    /\ p \in pending
    /\ p.kind = "load"
    /\ pending' = pending \ {p}
    /\ LET i == ObjIndex(layers, p.obj)
           ls == IF i = 0 THEN layers
                 ELSE SetSurf(layers, i, DrawImage(ImageOf(p.data), layers[i].surf))
           count == loadedCount[p.job] + 1
       IN  /\ layers' = ls
           /\ loadedCount' = [loadedCount EXCEPT ![p.job] = count]
           /\ IF count = p.total
              THEN /\ layersList' = renderLayerList(ls)
                   /\ activeLayerId' = IF Len(ls) > 0 THEN ls[Len(ls)].id
                                       ELSE activeLayerId
              ELSE UNCHANGED <<layersList, activeLayerId>>
    /\ UNCHANGED <<nextLayerId, history, historyStep, drawVars, nextObj>>

\* ---- code generation --------------------------------------------------------------
InkThreshold == 250          \* r < 250 || g < 250 || b < 250

\* Variant of the flattening that draws the hidden layers too.
RECURSIVE FlattenPixelAll(_, _, _)
FlattenPixelAll(ls, n, i) ==
    IF n = 0 THEN WhitePx
    ELSE Over(ls[n].surf[i], FlattenPixelAll(ls, n - 1, i))

\* Pixel i of the temp canvas of processAllLayers: filled '#ffffff', then the
\* visible ones of the first n layers drawn in order.
RECURSIVE FlattenPixel(_, _, _)
FlattenPixel(ls, n, i) ==
    IF n = 0 THEN WhitePx
    ELSE LET below == FlattenPixel(ls, n - 1, i)
         IN  IF ls[n].visible THEN Over(ls[n].surf[i], below) ELSE below

Flatten(ls) == [i \in PixIdx |-> FlattenPixel(ls, Len(ls), i)]

\* tCtx.getImageData(0, 0, CONFIG.width, CONFIG.height)
getImageData(ls) == [width |-> Width, height |-> Height, data |-> Flatten(ls)]

\* A line of the generated text: the template it is made from and the
\* numbers put into it.
Line(op, a, b, c) == [op |-> op, a |-> a, b |-> b, c |-> c]
Text(t) == Line(t, 0, 0, 0)
Fill(r, g, b) == Line("fill", r, g, b)
Rect(x, y) == Line("rect", x, y, 1)

\* Variant of the ink test that wants every channel below the threshold.
IsInkAll(px) ==
    px[1] < InkThreshold /\ px[2] < InkThreshold /\ px[3] < InkThreshold

\* if (r < 250 || g < 250 || b < 250)
IsInk(px) ==
    px[1] < InkThreshold \/ px[2] < InkThreshold \/ px[3] < InkThreshold

\* Variant of the scan that forgets the last colour at the start of a row.
RECURSIVE RectsRowReset(_, _, _, _)
RectsRowReset(data, w, k, last) ==
    IF k >= Len(data) THEN << >>
    ELSE LET px == data[k + 1]
             rgb == <<px[1], px[2], px[3]>>
             prev == IF k % w = 0 THEN <<-1, -1, -1>> ELSE last
         IN  IF IsInk(px)
             THEN (IF rgb /= prev THEN <<Fill(px[1], px[2], px[3])>> ELSE << >>)
                  \o <<Rect(k % w, k \div w)>>
                  \o RectsRowReset(data, w, k + 1, rgb)
             ELSE RectsRowReset(data, w, k + 1, prev)

\* Variant of the scan that writes the row where the column belongs.
RECURSIVE RectsTransposed(_, _, _, _)
RectsTransposed(data, w, k, last) ==
    IF k >= Len(data) THEN << >>
    ELSE LET px == data[k + 1]
             rgb == <<px[1], px[2], px[3]>>
         IN  IF IsInk(px)
             THEN (IF rgb /= last THEN <<Fill(px[1], px[2], px[3])>> ELSE << >>)
                  \o <<Rect(k \div w, k % w)>>
                  \o RectsTransposed(data, w, k + 1, rgb)
             ELSE RectsTransposed(data, w, k + 1, last)

\* The two loops of processAllLayers from cell k = y * width + x on, with
\* last = <<lastR, lastG, lastB>>: the lines pushed to rects.
RECURSIVE Rects(_, _, _, _)
Rects(data, w, k, last) ==
    IF k >= Len(data) THEN << >>
    ELSE LET px == data[k + 1]
             rgb == <<px[1], px[2], px[3]>>
         IN  IF IsInk(px)
             THEN (IF rgb /= last THEN <<Fill(px[1], px[2], px[3])>> ELSE << >>)
                  \o <<Rect(k % w, k \div w)>>
                  \o Rects(data, w, k + 1, rgb)
             ELSE Rects(data, w, k + 1, last)

Header(w, h) ==
    << Text("function setup() {"), Line("  createCanvas", w, h, 0), Text("}"),
       Text(""), Text("function draw() {"), Text("  background(280);"),
       Text("  noStroke();"), Text("") >>

\* processAllLayers from its imageData on: the lines that are joined.
Compile(img) ==
    Header(img.width, img.height)
       \o Rects(img.data, img.width, 0, <<-1, -1, -1>>)
       \o <<Text("}")>>

processAllLayers == Compile(getImageData(layers))

\* btnGenerate click: generateCode shows the modal and sets the timeout.
generateCode ==
    /\ code' = <<Text("Generating code... Merging layers...")>>
    /\ genTimer' = TRUE
    /\ UNCHANGED <<prog, imageData>>

\* The timeout of generateCode.
generateTimeout ==
    /\ genTimer
    /\ genTimer' = FALSE
    /\ imageData' = getImageData(layers)
    /\ code' = processAllLayers
    /\ UNCHANGED prog

\* ---- observer of the add / paint / record / undo scenario ---------------------
\* The layer object the active id finds, 0 when there is none.
ActiveObj == IF getActiveCtx = 0 THEN 0 ELSE layers[getActiveCtx].obj

E2eOff == [stage |-> "off", obj |-> 0, first |-> FALSE]

\* The observer's value after a step: addLayer starts the scenario on the
\* layer it creates; the steps of one stroke on that layer, the record at its
\* end, the undo and the onload of the undo's image advance it; the onload of
\* another layer's image leaves it; any other change of state ends it.
Observe ==
    IF prog' = prog THEN e2e
    ELSE IF addLayer
    THEN [stage |-> "created", obj |-> nextObj', first |-> Len(layers) = 0]
    ELSE IF \E p \in pending : p.kind = "undo" /\ undoOnload(p) /\ p.obj /= e2e.obj
    THEN e2e
    ELSE IF /\ e2e.stage = "created"
            /\ ActiveObj = e2e.obj
            /\ ~isDrawing /\ isDrawing'
            /\ \E e \in PointerEvents : startDrawing(e)
    THEN [e2e EXCEPT !.stage = "painting"]
    ELSE IF /\ e2e.stage = "painting"
            /\ ActiveObj = e2e.obj
            /\ \E e \in PointerEvents : draw(e)
    THEN e2e
    ELSE IF /\ e2e.stage = "painting"
            /\ ActiveObj = e2e.obj
            /\ stopDrawing
    THEN [e2e EXCEPT !.stage = "recorded"]
    ELSE IF e2e.stage = "recorded" /\ undo
    THEN [e2e EXCEPT !.stage = "undone"]
    ELSE IF /\ e2e.stage = "undone"
            /\ \E p \in pending : p.kind = "undo" /\ undoOnload(p) /\ p.obj = e2e.obj
    THEN [e2e EXCEPT !.stage = "restored"]
    ELSE E2eOff

\* A listener run by the user's input, within the session's budget; a run
\* that changes nothing is not counted.
Budget(A) ==
    /\ ops < MaxOps
    /\ A
    /\ ops' = IF <<prog, alertText>>' = <<prog, alertText>> THEN ops ELSE ops + 1
    /\ e2e' = Observe

\* A listener that raises no alert.
User(A) == Budget(A /\ alertText' = NoAlert) /\ UNCHANGED aux

\* An image's onload, run when the decode is done.
Onload(A) ==
    /\ A
    /\ alertText' = NoAlert
    /\ UNCHANGED <<ops, aux>>
    /\ e2e' = Observe

Next ==
    \/ User(addLayer)
    \/ \E id \in layersList : User(setActiveLayer(id))
    \/ \E id \in layersList : User(toggleLayerVisibility(id))
    \/ \E id \in layersList : User(deleteLayer(id))
    \/ \E t \in Tools : User(switchToTool(t))
    \/ \E c \in PickerColors : User(colorInput(c))
    \/ \E e \in PointerEvents : User(startDrawing(e))
    \/ \E e \in PointerEvents : User(draw(e))
    \/ User(stopDrawing)
    \/ User(clearCurrentLayer)
    \/ User(undo)
    \/ \E file \in ProjectFiles :
          Budget(loadProject(file) /\ alertText' = catchAlert(file)) /\ UNCHANGED aux
    \/ \E p \in pending : Onload(undoOnload(p))
    \/ \E p \in pending : Onload(loadOnload(p))

Spec == Init /\ [][Next]_vars

\* ---- the layer stack alone -----------------------------------------------------
\* The listeners of the layer panel, of the Clear button and of the project
\* load, with the listener that ran last on record.
LayerCall(A, name) ==
    /\ Budget(A /\ alertText' = NoAlert)
    /\ called' = name
    /\ UNCHANGED <<saveAux, genAux>>

NextLayers ==
    \/ LayerCall(addLayer, "")
    \/ \E id \in layersList : LayerCall(setActiveLayer(id), "")
    \/ \E id \in layersList : LayerCall(toggleLayerVisibility(id), "")
    \/ \E id \in layersList : LayerCall(deleteLayer(id), "deleteLayer")
    \/ LayerCall(clearCurrentLayer, "")
    \/ \E file \in ProjectFiles :
          /\ Budget(loadProject(file) /\ alertText' = catchAlert(file))
          /\ called' = ""
          /\ UNCHANGED <<saveAux, genAux>>
    \/ \E p \in pending : loadOnload(p) /\ alertText' = NoAlert /\ e2e' = Observe
                             /\ called' = "" /\ UNCHANGED <<ops, saveAux, genAux>>

SpecLayers == Init /\ [][NextLayers]_vars

\* ---- pointer input -------------------------------------------------------------
\* A pointer listener run with the event e: the listener is on record when the
\* event is not of the primary pointer.
PointerCall(A, e, name) ==
    /\ Budget(A /\ alertText' = NoAlert)
    /\ called' = IF e.isPrimary THEN "" ELSE name
    /\ UNCHANGED <<saveAux, genAux>>

\* The three pointer listeners, each run for every pointer's events, and the
\* listeners that choose the layer and the tool painted with.  stopDrawing
\* takes no argument: the pointerup event it is run for is not read.
NextPointer ==
    \/ \E e \in PointerEvents : PointerCall(startDrawing(e), e, "startDrawing")
    \/ \E e \in PointerEvents : PointerCall(draw(e), e, "draw")
    \/ \E e \in PointerEvents : PointerCall(stopDrawing, e, "stopDrawing")
    \/ LayerCall(addLayer, "")
    \/ \E id \in layersList : LayerCall(setActiveLayer(id), "")
    \/ \E id \in layersList : LayerCall(toggleLayerVisibility(id), "")
    \/ \E t \in Tools : LayerCall(switchToTool(t), "")
    \/ LayerCall(clearCurrentLayer, "")

SpecPointer == Init /\ [][NextPointer]_vars

\* ---- painting, recording and undo ---------------------------------------------
\* The listeners that paint and record, undo() and the onload of its images,
\* which run in any order once their decodes are started.
NextUndo ==
    \/ User(addLayer)
    \/ \E id \in layersList : User(setActiveLayer(id))
    \/ \E e \in PointerEvents : User(startDrawing(e))
    \/ \E e \in PointerEvents : User(draw(e))
    \/ User(stopDrawing)
    \/ User(clearCurrentLayer)
    \/ User(undo)
    \/ \E p \in pending : Onload(undoOnload(p))

SpecUndo == Init /\ [][NextUndo]_vars

\* ---- save and load ------------------------------------------------------------
\* What a project file says of a stack: ids, names, visibility and pixels, in
\* paint order.
Described(ls) ==
    [k \in 1..Len(ls) |->
        [id |-> ls[k].id, name |-> ls[k].name, visible |-> ls[k].visible,
         surf |-> ls[k].surf]]

\* A listener of the layer panel or of the Clear button between a save and a
\* load: the observer notes whether it changed the stack being loaded.
SaveCall(A) ==
    /\ Budget(A /\ alertText' = NoAlert)
    /\ rt' = IF <<layers, nextLayerId>>' = <<layers, nextLayerId>>
             THEN rt ELSE [rt EXCEPT !.clean = FALSE]
    /\ UNCHANGED <<called, savedFile, savedFrom, genAux>>

\* btnSave click: saveProject downloads the file.
saveClick ==
    /\ ops < MaxOps
    /\ savedFile' = saveProject
    /\ savedFrom' = [layers |-> Described(layers), nextLayerId |-> nextLayerId]
    /\ ops' = IF savedFile' = savedFile THEN ops ELSE ops + 1
    /\ alertText' = NoAlert
    /\ UNCHANGED <<prog, e2e, called, rt, genAux>>

\* The file input's change listener with the file saved last.
loadSaved ==
    /\ savedFile /= NoFile
    /\ Budget(loadProject(savedFile) /\ alertText' = catchAlert(savedFile))
    /\ rt' = [job |-> Len(loadedCount'), clean |-> TRUE, from |-> savedFrom]
    /\ UNCHANGED <<called, savedFile, savedFrom, genAux>>

\* The load of some other file.
loadOther(file) ==
    /\ Budget(loadProject(file) /\ alertText' = catchAlert(file))
    /\ rt' = IF <<layers, nextLayerId>>' = <<layers, nextLayerId>>
             THEN rt ELSE [rt EXCEPT !.clean = FALSE]
    /\ UNCHANGED <<called, savedFile, savedFrom, genAux>>

NextSave ==
    \/ SaveCall(addLayer)
    \/ \E id \in layersList : SaveCall(toggleLayerVisibility(id))
    \/ \E id \in layersList : SaveCall(deleteLayer(id))
    \/ SaveCall(clearCurrentLayer)
    \/ saveClick
    \/ loadSaved
    \/ \E file \in ProjectFiles : loadOther(file)
    \/ \E p \in pending :
          /\ loadOnload(p)
          /\ alertText' = NoAlert
          /\ e2e' = Observe
          /\ UNCHANGED <<ops, called, saveAux, genAux>>

SpecSave == Init /\ [][NextSave]_vars

\* ---- layers, colour picking and code generation -----------------------------
GenCall(A) ==
    /\ Budget(A /\ alertText' = NoAlert)
    /\ UNCHANGED <<called, saveAux, genAux>>

NextGen ==
    \/ GenCall(addLayer)
    \/ \E id \in layersList : GenCall(setActiveLayer(id))
    \/ \E id \in layersList : GenCall(toggleLayerVisibility(id))
    \/ GenCall(clearCurrentLayer)
    \/ GenCall(switchToTool("pipette"))
    \/ \E e \in PointerEvents : GenCall(startDrawing(e))
    \/ GenCall(stopDrawing)
    \/ \E file \in ProjectFiles :
          /\ Budget(loadProject(file) /\ alertText' = catchAlert(file))
          /\ UNCHANGED <<called, saveAux, genAux>>
    \/ \E p \in pending :
          /\ loadOnload(p)
          /\ alertText' = NoAlert
          /\ e2e' = Observe
          /\ UNCHANGED <<ops, called, saveAux, genAux>>
    \/ /\ ops < MaxOps
       /\ generateCode
       /\ ops' = ops + 1
       /\ alertText' = NoAlert
       /\ UNCHANGED <<e2e, called, saveAux>>
    \/ /\ generateTimeout
       /\ alertText' = NoAlert
       /\ UNCHANGED <<ops, e2e, called, saveAux>>

SpecGen == Init /\ [][NextGen]_vars

\* ---- the compiler on image data ----------------------------------------------
MaxCells == 4        \* pixels of the largest image data compiled

Red == <<255, 0, 0, 255>>
Blue == <<0, 0, 255, 255>>
Palette == {Red, Blue, WhitePx, <<250, 250, 250, 255>>, <<249, 255, 255, 255>>}

Shapes == {sh \in (1..MaxCells) \X (1..MaxCells) : sh[1] * sh[2] <= MaxCells}

\* Image data of every shape of at most MaxCells pixels over the palette.
Buffers ==
    UNION { [width : {sh[1]}, height : {sh[2]},
             data : [1..(sh[1] * sh[2]) -> Palette]] : sh \in Shapes }

\* processAllLayers from the getImageData call on, the image data being img.
processImageData(img) ==
    /\ imageData = NoImage
    /\ imageData' = img
    /\ code' = Compile(img)
    /\ UNCHANGED <<prog, alertText, ops, e2e, called, saveAux, genTimer>>

NextCompile == \E img \in Buffers : processImageData(img)

SpecCompile == Init /\ [][NextCompile]_vars

\* ===========================================================================
\* Properties
\* ===========================================================================

\* 0-based indices below cursor c of the log entries recorded for layer id.
PriorIdx(h, c, id) == {k \in 0..(c - 1) : h[k + 1].layerId = id}

MaxOf(S) == CHOOSE m \in S : \A k \in S : k <= m

\* The layer of the stack that is the layer object obj, when it is there.
SurfOfObj(ls, obj) == ls[ObjIndex(ls, obj)].surf

\* A step of a listener that calls saveHistoryState(id).
Records(id) ==
    \/ addLayer /\ id = nextLayerId
    \/ stopDrawing /\ isDrawing /\ id = activeLayerId
    \/ clearCurrentLayer /\ getActiveCtx /= 0 /\ id = activeLayerId

\* C1: in every reachable state the stack holds at least one layer and
\* activeLayerId is the id of a layer of the stack.
C1_StackNonEmptyActiveValid ==
    /\ Len(layers) >= 1
    /\ activeLayerId \in LayerIds(layers)

\* C2: undo() with cursor > 0 and an earlier entry of the same layer moves the
\* cursor down by one and starts the decode of the highest-indexed such
\* entry's snapshot for the layer of that id; when the decode completes, the
\* layer's surface is exactly that snapshot.
C2_UndoRestoresLatestPrior ==
    [][ /\ ( /\ undo
             /\ historyStep > 0
             /\ PriorIdx(history, historyStep, history[historyStep + 1].layerId) /= {}
             /\ findIndex(layers, history[historyStep + 1].layerId) /= 0 )
           => LET id == history[historyStep + 1].layerId
                  k == MaxOf(PriorIdx(history, historyStep, id))
                  i == findIndex(layers, id)
              IN  /\ historyStep' = historyStep - 1
                  /\ UndoDecode(layers[i].obj, id, history[k + 1].dataURL) \in pending'
        /\ \A p \in pending :
              (p.kind = "undo" /\ undoOnload(p) /\ ObjIndex(layers, p.obj) /= 0)
              => toDataURL(SurfOfObj(layers', p.obj)) = p.data
      ]_vars

\* A state after such an undo and its decode: the cursor is below the last
\* entry, the undone entry's layer has two earlier entries, and its surface
\* is the later one's snapshot and no longer the undone one.
C2_Witness ==
    /\ pending = {}
    /\ historyStep >= 1
    /\ historyStep + 2 <= Len(history)
    /\ LET e == history[historyStep + 2]
           prior == PriorIdx(history, historyStep + 1, e.layerId)
           i == findIndex(layers, e.layerId)
       IN  /\ Cardinality(prior) >= 2
           /\ i /= 0
           /\ toDataURL(layers[i].surf) = history[MaxOf(prior) + 1].dataURL
           /\ toDataURL(layers[i].surf) /= e.dataURL
           /\ toDataURL(layers[i].surf) /= history[1].dataURL

\* C3: undo() changes no layer, and the completion of its decode changes at
\* most the surface of the layer object undo() found under the entry's
\* layerId; every other layer keeps its id, name, visibility and surface.
C3_UndoTouchesOnlyTarget ==
    [][ /\ undo => layers' = layers
        /\ \A p \in pending :
              (p.kind = "undo" /\ undoOnload(p))
              => /\ Len(layers') = Len(layers)
                 /\ \A i \in 1..Len(layers) :
                       \/ layers'[i] = layers[i]
                       \/ /\ layers[i].obj = p.obj
                          /\ layers[i].id = p.layerId
                          /\ layers'[i] = [layers[i] EXCEPT !.surf = layers'[i].surf]
      ]_vars

\* A state after an undo and its decode in a stack of two or more layers: the
\* undone entry's layer shows its earlier snapshot again.
C3_Witness ==
    /\ pending = {}
    /\ Len(layers) >= 2
    /\ historyStep >= 0
    /\ historyStep + 2 <= Len(history)
    /\ LET e == history[historyStep + 2]
           prior == PriorIdx(history, historyStep + 1, e.layerId)
           i == findIndex(layers, e.layerId)
       IN  /\ prior /= {}
           /\ i /= 0
           /\ toDataURL(layers[i].surf) = history[MaxOf(prior) + 1].dataURL
           /\ toDataURL(layers[i].surf) /= e.dataURL

\* C4: while a decode started by undo() is pending, the surface of the layer
\* it targets is not changed by any step.
C4_NoMutationWhileDecodePending ==
    [][ \A p \in pending :
           (p.kind = "undo" /\ p \in pending'
              /\ ObjIndex(layers, p.obj) /= 0 /\ ObjIndex(layers', p.obj) /= 0)
           => SurfOfObj(layers', p.obj) = SurfOfObj(layers, p.obj)
      ]_vars

\* C5: the log never holds more than maxHistory entries.
C5_HistoryBounded == Len(history) <= maxHistory

\* A full log whose first entry is no longer the initial snapshot: the oldest
\* entry has been evicted.
C5_Witness ==
    /\ Len(history) = maxHistory
    /\ history[1] /= [layerId |-> 1, dataURL |-> WhiteImage]

\* C6: -1 <= cursor <= length - 1, cursor = -1 exactly when the log is empty;
\* a record that overflows the capacity drops the oldest entry and leaves the
\* cursor on the entry just appended.
C6_CursorInRange ==
    /\ [](/\ -1 <= historyStep
          /\ historyStep <= Len(history) - 1
          /\ (historyStep = -1 <=> Len(history) = 0))
    /\ [][ \A id \in LayerIds(layers') :
              (Records(id) /\ historyStep + 1 = maxHistory)
              => /\ Len(history') = maxHistory
                 /\ historyStep' = (historyStep + 1) - 1
                 /\ SubSeq(history', 1, maxHistory - 1)
                       = SubSeq(history, 2, historyStep + 1)
                 /\ history'[historyStep' + 1].layerId = id
         ]_vars

\* The cursor on the last entry of a full log after an eviction.
C6_Witness ==
    /\ Len(history) = maxHistory
    /\ historyStep = maxHistory - 1
    /\ history[1].dataURL /= WhiteImage

\* C7: record(layerId) on a layer of the stack discards the entries above the
\* cursor, appends (layerId, the layer's current surface) as the last entry
\* and puts the cursor on it; the entries up to the old cursor stay in order,
\* less the oldest one when the log was full.
C7_RecordTruncatesAndAppends ==
    [][ \A id \in LayerIds(layers') :
           Records(id)
           => LET kept == SubSeq(history, 1, historyStep + 1)
                  new == [layerId |-> id,
                          dataURL |-> toDataURL(layers'[findIndex(layers', id)].surf)]
              IN  /\ historyStep' = Len(history') - 1
                  /\ history' = IF Len(kept) < maxHistory
                                THEN Append(kept, new)
                                ELSE Append(Tail(kept), new)
      ]_vars

\* The cursor on the last entry while a decode started by an earlier undo is
\* still pending: a record has run with the cursor below the end of the log.
C7_Witness ==
    /\ historyStep = Len(history) - 1
    /\ \E p \in pending : p.kind = "undo"

\* C8: undo() with cursor <= 0 changes nothing; with cursor > 0 it lowers the
\* cursor by exactly one, never below 0, and changes no surface itself, so
\* that repeated calls reach cursor <= 0.
C8_UndoAtBottomIsNoOp ==
    [][ undo => IF historyStep > 0
                THEN /\ historyStep' = historyStep - 1
                     /\ historyStep' >= 0
                     /\ layers' = layers
                     /\ history' = history
                ELSE UNCHANGED prog
      ]_vars

\* The cursor at the bottom of a log of several entries: undo has run down to
\* the state where it is a no-op.
C8_Witness ==
    /\ historyStep = 0
    /\ Len(history) >= 2

\* C9: undo() with cursor > 0 and no earlier entry of the same layer changes
\* no layer and starts no decode.
C9_DegenerateUndoLeavesLayers ==
    [][ ( /\ undo
          /\ historyStep > 0
          /\ PriorIdx(history, historyStep, history[historyStep + 1].layerId) = {} )
        => /\ layers' = layers
           /\ pending' = pending
           /\ historyStep' = historyStep - 1
      ]_vars

\* A state after a degenerate undo: the entry above the cursor is the only
\* one of its layer, and the layer still shows that entry's snapshot.
C9_Witness ==
    /\ pending = {}
    /\ historyStep >= 0
    /\ historyStep + 2 <= Len(history)
    /\ LET e == history[historyStep + 2]
           i == findIndex(layers, e.layerId)
       IN  /\ PriorIdx(history, historyStep + 1, e.layerId) = {}
           /\ i /= 0
           /\ toDataURL(layers[i].surf) = e.dataURL

\* C10: a layer made by addLayer, painted with one stroke that is recorded and
\* then undone, has a decode pending after the undo and, once that decode has
\* completed, the contents it was created with: opaque white when the stack
\* was empty at its creation, fully transparent otherwise.
C10_PaintRecordUndoRestoresCreation ==
    /\ e2e.stage = "undone"
       => /\ ObjIndex(layers, e2e.obj) /= 0
          /\ \E p \in pending : p.kind = "undo" /\ p.obj = e2e.obj
    /\ e2e.stage = "restored"
       => /\ ObjIndex(layers, e2e.obj) /= 0
          /\ SurfOfObj(layers, e2e.obj)
                = IF e2e.first THEN FillRect(bgColor) ELSE BlankSurface

\* The scenario completed on a layer added above another one: the layer is
\* fully transparent again.
C10_Witness ==
    /\ e2e.stage = "restored"
    /\ ~e2e.first
    /\ SurfOfObj(layers, e2e.obj) = BlankSurface

\* C11: the trash button's listener on a stack of exactly one layer leaves the
\* stack, activeLayerId, nextLayerId, every surface and the log unchanged and
\* reports the refusal to the user.
C11_LastLayerDeleteRefused ==
    [][ (called' = "deleteLayer" /\ Len(layers) = 1)
        => /\ UNCHANGED <<layers, activeLayerId, nextLayerId, history, historyStep>>
           /\ alertText' /= NoAlert
      ]_vars

\* C12: deleteLayer(id) on a stack of two or more layers that holds a layer
\* of that id removes one layer, of that id, and keeps the others in order;
\* when id was the active id the layer just below the removed one becomes
\* active, or the new bottom layer when the bottom one was removed; otherwise
\* activeLayerId is unchanged.
C12_DeleteRemovesAndPicksNeighbor ==
    [][ \A id \in layersList :
           (deleteLayer(id) /\ Len(layers) >= 2 /\ id \in LayerIds(layers))
           => \E k \in 1..Len(layers) :
                 /\ layers[k].id = id
                 /\ Len(layers') = Len(layers) - 1
                 /\ \A j \in 1..Len(layers') :
                       layers'[j] = IF j < k THEN layers[j] ELSE layers[j + 1]
                 /\ activeLayerId' =
                       IF activeLayerId /= id THEN activeLayerId
                       ELSE IF k > 1 THEN layers[k - 1].id
                       ELSE layers[k + 1].id
      ]_vars

\* The active layer was deleted from the middle or top of a stack: the stack
\* of three layers made by two addLayer calls has lost its top layer and the
\* layer below it is active.
C12_Witness ==
    /\ called = "deleteLayer"
    /\ Len(layers) = 2
    /\ nextLayerId = 4
    /\ LayerIds(layers) = {1, 2}
    /\ activeLayerId = 2

\* C13: the ids of the layers of the stack are pairwise distinct, and every
\* addLayer call appends a layer whose id is greater than the id of every
\* layer of the stack, makes it active, and gives it an opaque white surface
\* when the stack was empty and a transparent one otherwise.
C13_FreshIds ==
    /\ [](\A i, j \in 1..Len(layers) : i /= j => layers[i].id /= layers[j].id)
    /\ [][ addLayer
           => /\ Len(layers') = Len(layers) + 1
              /\ SubSeq(layers', 1, Len(layers)) = layers
              /\ activeLayerId' = layers'[Len(layers')].id
              /\ \A i \in 1..Len(layers) : layers[i].id < layers'[Len(layers')].id
              /\ layers'[Len(layers')].surf
                    = IF Len(layers) = 0 THEN FillRect(bgColor) ELSE BlankSurface
         ]_vars

\* C14: a project load leaves in the log only snapshots of the loaded stack:
\* every entry after restoreProject has run names a layer of the new stack
\* and holds that layer's surface.
C14_LoadResetsHistory ==
    [][ \A file \in ProjectFiles :
           (file.parses /\ file.hasLayers
              /\ loadProject(file) /\ alertText' = catchAlert(file))
           => \A k \in 1..Len(history') :
                 \E i \in 1..Len(layers') :
                    /\ layers'[i].id = history'[k].layerId
                    /\ toDataURL(layers'[i].surf) = history'[k].dataURL
      ]_vars

\* A project file that loadProject cannot restore: its text does not parse,
\* it has no layers array, or one of its layer images does not decode.
Malformed(file) ==
    \/ ~file.parses
    \/ ~file.hasLayers
    \/ \E k \in 1..Len(file.layers) : ~Decodes(file.layers[k].data)

\* C16: the load of a malformed project file leaves the stack, activeLayerId,
\* nextLayerId and every surface as they were and reports the failure.
C16_FailedLoadChangesNothing ==
    [][ \A file \in ProjectFiles :
           (Malformed(file) /\ loadProject(file) /\ alertText' = catchAlert(file))
           => /\ UNCHANGED <<layers, activeLayerId, nextLayerId>>
              /\ alertText' = LoadFailed
      ]_vars

\* The decodes of the load the observer follows have all completed, and no
\* other step has changed the stack since that load.
RoundTripDone ==
    /\ rt.job /= 0
    /\ rt.clean
    /\ \A p \in pending : ~(p.kind = "load" /\ p.job = rt.job)

\* C15: once the decodes of a load of the saved file have completed, the stack
\* has the ids, names, visibility flags, order and pixels of the stack the
\* file was saved from, and nextLayerId is the one saved.
C15_SaveLoadRoundTrip ==
    RoundTripDone
    => /\ Described(layers) = rt.from.layers
       /\ nextLayerId = rt.from.nextLayerId

\* A round trip of a stack of two layers, one hidden and one opaque white:
\* the layers are objects the load created.
C15_Witness ==
    /\ RoundTripDone
    /\ Len(layers) = 2
    /\ \E i \in 1..2 : ~layers[i].visible
    /\ \E i \in 1..2 : layers[i].surf = FillRect(bgColor)
    /\ layers[1].obj > 1

\* Surfaces tried in the place of a hidden layer's surface.
AltSurfaces == {BlankSurface, FillRect(black), FillRect(bgColor)}

\* The stacks that differ from ls at most in the surfaces of hidden layers:
\* each hidden layer gets one of the surfaces tried.
AltStacks(ls) ==
    { [i \in 1..Len(ls) |->
          IF ls[i].visible THEN ls[i] ELSE [ls[i] EXCEPT !.surf = f[i]]] :
      f \in [1..Len(ls) -> AltSurfaces] }

\* The colour, as 0xRRGGBB, of a pixel.
RgbOf(px) == px[1] * 65536 + px[2] * 256 + px[3]

\* A pointerdown that reaches pickColorGlobal.
Picks(e) ==
    /\ e.isPrimary /\ e.button = 0
    /\ currentTool = "pipette"
    /\ getActiveCtx /= 0
    /\ layers[getActiveCtx].visible
    /\ startDrawing(e)

\* C17: the image data processAllLayers flattens and the colour
\* pickColorGlobal picks are those of every stack that differs only in the
\* surfaces of hidden layers.
C17_HiddenLayersDoNotCount ==
    [][ /\ generateTimeout
           => \A alt \in AltStacks(layers) : imageData'.data = Flatten(alt)
        /\ \A e \in PointerEvents :
              Picks(e)
              => \A alt \in AltStacks(layers) :
                    color' = RgbOf(PickPixel(alt, Len(alt), PixelAt(e.x, e.y)))
      ]_vars

\* Image data flattened from a stack whose hidden layer holds ink: the data
\* are white.
C17_Witness ==
    /\ imageData /= NoImage
    /\ imageData.data = Flatten(layers)
    /\ imageData.data = FillRect(bgColor)
    /\ \E i \in 1..Len(layers) : ~layers[i].visible /\ layers[i].surf = FillRect(black)

\* C18: the colour pickColorGlobal picks at (x, y) is the colour the flattened
\* image data of processAllLayers have at (x, y).
C18_PickEqualsComposite ==
    [][ \A e \in PointerEvents :
           Picks(e) => color' = RgbOf(Flatten(layers)[PixelAt(e.x, e.y)])
      ]_vars

\* The lines of the generated text between the header and the closing brace.
Body == SubSeq(code, Len(Header(0, 0)) + 1, Len(code) - 1)

\* 0-based cells of the image data with a channel below 250, and the j-th of
\* them in row-major order.
InkCells ==
    {k \in 0..(Len(imageData.data) - 1) :
        \E c \in 1..3 : imageData.data[k + 1][c] < 250}
InkCell(j) == CHOOSE k \in InkCells : Cardinality({m \in InkCells : m < k}) = j - 1
InkRgb(j) ==
    LET px == imageData.data[InkCell(j) + 1] IN <<px[1], px[2], px[3]>>

RectsOf(lines) == SelectSeq(lines, LAMBDA l : l.op = "rect")
FillsOf(lines) == SelectSeq(lines, LAMBDA l : l.op = "fill")

Compiled == imageData /= NoImage /\ Len(code) > Len(Header(0, 0))

RedRedBlue == [width |-> 3, height |-> 1, data |-> <<Red, Red, Blue>>]

\* C19: a fill line stands immediately before the rect line of the j-th ink
\* pixel exactly when j = 1 or its RGB differs from that of the ink pixel
\* before it in row-major order, and it names that pixel's RGB; no fill line
\* stands anywhere else; the image data [red, red, blue] give two fill lines
\* and three rect lines.
C19_FillOnColorChange ==
    Compiled
    => /\ \A q \in 1..Len(Body) :
             Body[q].op = "rect"
             => LET j == Len(RectsOf(SubSeq(Body, 1, q)))
                    filled == q > 1 /\ Body[q - 1].op = "fill"
                IN  /\ j <= Cardinality(InkCells)
                    /\ filled <=> (j = 1 \/ InkRgb(j) /= InkRgb(j - 1))
                    /\ filled => Body[q - 1]
                                   = Fill(InkRgb(j)[1], InkRgb(j)[2], InkRgb(j)[3])
       /\ \A q \in 1..Len(Body) :
             Body[q].op = "fill" => q < Len(Body) /\ Body[q + 1].op = "rect"
       /\ imageData = RedRedBlue
          => Len(FillsOf(Body)) = 2 /\ Len(RectsOf(Body)) = 3

\* Image data of two rows whose second row starts with the colour the first
\* row's ink had, a white pixel between them: one fill line for the two red
\* pixels, one for the blue one.
C19_Witness ==
    /\ Compiled
    /\ imageData = [width |-> 2, height |-> 2, data |-> <<Red, WhitePx, Red, Blue>>]
    /\ Len(FillsOf(Body)) = 2
    /\ Len(RectsOf(Body)) = 3

\* C20: the rect lines of the generated text are, in row-major order, one
\* rect(x, y, 1) for each pixel with a channel below 250; every other line of
\* the body is a fill line; image data with no such pixel give no rect and no
\* fill line.
C20_RectPerInkPixel ==
    Compiled
    => /\ Len(RectsOf(Body)) = Cardinality(InkCells)
       /\ \A j \in 1..Len(RectsOf(Body)) :
             RectsOf(Body)[j] = Rect(InkCell(j) % imageData.width,
                                     InkCell(j) \div imageData.width)
       /\ \A q \in 1..Len(Body) : Body[q].op \in {"rect", "fill"}
       /\ InkCells = {} => Body = << >>

\* Image data with one pixel just below the threshold in one channel only, the
\* others at or above it: one rect line, at that pixel.
C20_Witness ==
    /\ Compiled
    /\ imageData = [width |-> 2, height |-> 2,
                    data |-> <<WhitePx, <<250, 250, 250, 255>>,
                               WhitePx, <<249, 255, 255, 255>>>>]
    /\ RectsOf(Body) = <<Rect(1, 1)>>

\* The statements of a body run in order on a buffer of RGB cells w wide: a
\* fill line selects the colour, a rect line paints the cell (x, y) with the
\* colour selected last, when the buffer has that cell.
RECURSIVE Execute(_, _, _, _)
Execute(lines, w, buf, selected) ==
    IF lines = << >> THEN buf
    ELSE LET l == Head(lines)
             cell == l.b * w + l.a + 1
         IN  IF l.op = "fill"
             THEN Execute(Tail(lines), w, buf, <<l.a, l.b, l.c>>)
             ELSE IF l.op = "rect" /\ l.a \in 0..(w - 1) /\ cell \in DOMAIN buf
             THEN Execute(Tail(lines), w, [buf EXCEPT ![cell] = selected], selected)
             ELSE Execute(Tail(lines), w, buf, selected)

WhiteRgb == <<WhitePx[1], WhitePx[2], WhitePx[3]>>

\* The buffer the generated body leaves on a white canvas of the image data's
\* size.
Executed ==
    Execute(Body, imageData.width,
            [k \in 1..Len(imageData.data) |-> WhiteRgb], WhiteRgb)

\* C21: the generated body, run on a white canvas, leaves at every pixel with
\* a channel below 250 the RGB the image data have there, and white at every
\* other pixel.
C21_ExecutionReproducesInk ==
    Compiled
    => \A k \in 0..(Len(imageData.data) - 1) :
          LET px == imageData.data[k + 1]
          IN  Executed[k + 1] = IF k \in InkCells
                                THEN <<px[1], px[2], px[3]>>
                                ELSE WhiteRgb

\* Image data of one row of two colours of ink around a pixel of the white
\* band that is not white: the run gives the two colours back and white in
\* place of the pixel between them.
C21_Witness ==
    /\ Compiled
    /\ imageData = [width |-> 3, height |-> 1,
                    data |-> <<Red, <<250, 250, 250, 255>>, Blue>>]
    /\ Executed = <<<<255, 0, 0>>, WhiteRgb, <<0, 0, 255>>>>
    /\ Executed[2] /= <<250, 250, 250>>

\* C22: a pointerdown, pointermove or pointerup event that is not of the
\* primary pointer changes no layer, leaves isDrawing as it is and appends
\* nothing to the log, also while a stroke is in progress.
C22_NonPrimaryIgnored ==
    [][ called' \in {"startDrawing", "draw", "stopDrawing"}
           => UNCHANGED <<layers, isDrawing, history, historyStep>>
      ]_vars

\* 0-based indices up to cursor c of the log entries recorded for layer id.
UpToIdx(h, c, id) == {k \in 0..c : k < Len(h) /\ h[k + 1].layerId = id}

\* C23: in every reachable state with no stroke in progress and no decode
\* pending, each layer of the stack with a log entry at an index up to the
\* cursor has the surface that the highest-indexed such entry holds.
C23_SnapshotConsistency ==
    (~isDrawing /\ pending = {})
    => \A i \in 1..Len(layers) :
          LET S == UpToIdx(history, historyStep, layers[i].id)
          IN  S /= {}
              => toDataURL(layers[i].surf) = history[MaxOf(S) + 1].dataURL
====
